---- MODULE Spec2Model ----
(***************************************************************************)
(* The MCP SSE test client of test-mcp-python-client/mcp_sse_client.py:    *)
(* the class MCPSSEClient (connect_sse, send_mcp_request and the test_    *)
(* methods) and the scripted run main().  Values are tagged records; text  *)
(* is a sequence of tokens, so that substring tests, split and urljoin are *)
(* computed, not assumed.                                                  *)
(***************************************************************************)
EXTENDS Integers, Sequences, FiniteSets, TLC

\* ------------------------------------------------------------------------
\* Bounds of the model
\* ------------------------------------------------------------------------
MaxUriLen == 4      \* tokens in the uri of an endpoint event
MaxTools == 2       \* entries in result.tools
MaxPosts == 2       \* POSTs a direct caller of the class issues

\* ------------------------------------------------------------------------
\* Python / JSON values
\* ------------------------------------------------------------------------
PyNone == [t |-> "null"]
PyBool(b) == [t |-> "bool", b |-> b]
PyNum(n) == [t |-> "num", n |-> n]
\* a str: its text as a sequence of tokens
PyStr(s) == [t |-> "str", s |-> s]
PyList(items) == [t |-> "list", items |-> items]
\* a dict: a set of <<key, value>> pairs, keys being one-token texts
PyDict(d) == [t |-> "dict", d |-> d]
\* an exception propagating out of an expression
Raise == [t |-> "raise"]

Keys(v) == {p[1] : p \in v.d}
Lookup(v, k) == (CHOOSE p \in v.d : p[1] = k)[2]
HasToken(s, tok) == \E i \in 1..Len(s) : s[i] = tok

\* bool(v): Python truthiness
Truthy(v) ==
    CASE v.t = "null" -> FALSE
      [] v.t = "bool" -> v.b
      [] v.t = "num" -> v.n # 0
      [] v.t = "str" -> v.s # <<>>
      [] v.t = "list" -> v.items # <<>>
      [] v.t = "dict" -> v.d # {}
      [] OTHER -> FALSE

\* `k in v` raises TypeError unless v is a container
InRaises(v) == v.t \in {"null", "bool", "num"}
\* `k in v` for a one-token text k: key of a dict, element of a list,
\* substring of a str
In(k, v) ==
    CASE v.t = "dict" -> k \in Keys(v)
      [] v.t = "list" -> \E i \in 1..Len(v.items) : v.items[i] = PyStr(<<k>>)
      [] v.t = "str" -> HasToken(v.s, k)
      [] OTHER -> FALSE

\* v.get(k, default): AttributeError unless v is a dict
Get(v, k, default) ==
    IF v.t # "dict" THEN Raise
    ELSE IF k \in Keys(v) THEN Lookup(v, k) ELSE default

\* v[k] for a text key k: TypeError on a list or str, KeyError on a dict
\* without the key
Subscript(v, k) ==
    IF v.t = "dict" /\ k \in Keys(v) THEN Lookup(v, k) ELSE Raise

\* ------------------------------------------------------------------------
\* Text of a uri: tokens; "session_id=" is the literal the client looks for
\* ------------------------------------------------------------------------
SID == "session_id="
UriTokens == {"/", "[", "m", SID}
RECURSIVE SeqsUpTo(_, _)
SeqsUpTo(S, n) ==
    IF n = 0 THEN {<<>>}
    ELSE LET shorter == SeqsUpTo(S, n - 1)
         IN shorter \cup {Append(s, x) : s \in shorter, x \in S}
Uris == SeqsUpTo(UriTokens, MaxUriLen)

FirstIndex(s, tok) == CHOOSE i \in 1..Len(s) : s[i] = tok /\ \A j \in 1..(i - 1) : s[j] # tok
\* s.split(tok): the list of the pieces between the occurrences of tok
RECURSIVE Split(_, _)
Split(s, tok) ==
    IF ~HasToken(s, tok) THEN <<s>>
    ELSE LET i == FirstIndex(s, tok)
         IN <<SubSeq(s, 1, i - 1)>> \o Split(SubSeq(s, i + 1, Len(s)), tok)

\* urllib.parse.urljoin(base_url, uri) for base_url = "http://localhost:3000"
\* (no path); ok = FALSE stands for the ValueError urlsplit raises on a netloc
\* with an unmatched bracket
BaseUrl == <<"http:", "/", "/", "localhost:3000">>
RECURSIVE Netloc(_)
Netloc(s) == IF s = <<>> \/ Head(s) = "/" THEN <<>> ELSE <<Head(s)>> \o Netloc(Tail(s))
RECURSIVE Collapse(_)
Collapse(s) ==
    IF Len(s) < 2 THEN s
    ELSE IF s[1] = "/" /\ s[2] = "/" THEN Collapse(Tail(s))
    ELSE <<Head(s)>> \o Collapse(Tail(s))
Urljoin(base, uri) ==
    IF uri = <<>> THEN [ok |-> TRUE, url |-> base]
    ELSE IF Len(uri) >= 2 /\ uri[1] = "/" /\ uri[2] = "/" THEN
        LET rest == SubSeq(uri, 3, Len(uri))
            netloc == Netloc(rest)
        IN IF HasToken(netloc, "[") THEN [ok |-> FALSE, url |-> <<>>]
           ELSE IF netloc # <<>> THEN [ok |-> TRUE, url |-> <<"http:">> \o uri]
           ELSE [ok |-> TRUE, url |-> base \o rest]
    ELSE IF uri[1] = "/" THEN [ok |-> TRUE, url |-> base \o uri]
    ELSE [ok |-> TRUE, url |-> base \o <<"/">> \o Collapse(uri)]

\* ------------------------------------------------------------------------
\* What the server sends
\* ------------------------------------------------------------------------
\* a body that is not JSON
Unparsable == [t |-> "text"]
\* json.loads(data) / response.json()
JsonLoads(data) == IF data = Unparsable THEN Raise ELSE data

\* final status codes of a response
Statuses == {200, 204, 304, 404, 500}
\* requests' Response.raise_for_status(): HTTPError for 4xx and 5xx only
RaiseForStatus(status) == 400 <= status /\ status < 600

UriData(u) == PyDict({<<"uri", PyStr(u)>>})
ValidEndpoint == [event |-> "endpoint", data |-> UriData(<<"/", "m", SID, "m">>)]
MessageEvent == [event |-> "message", data |-> Unparsable]
\* data of an endpoint event
EndpointData ==
    {Unparsable, PyNone, PyList(<<>>), PyDict({}),
     PyDict({<<"uri", PyNone>>}), PyDict({<<"uri", PyNum(5)>>}),
     PyDict({<<"uri", PyList(<<PyStr(<<SID>>)>>)>>})}
    \cup {UriData(u) : u \in Uris}
FirstEvents ==
    {[event |-> "endpoint", data |-> d] : d \in EndpointData}
    \cup {MessageEvent, [event |-> "message", data |-> ValidEndpoint.data]}
EventSeqs ==
    {<<>>} \cup {<<e>> : e \in FirstEvents}
    \cup {<<e, f>> : e \in FirstEvents, f \in {ValidEndpoint, MessageEvent}}
\* the answer to GET sse_url: no connection, an error status, or a stream
Streams ==
    {[conn |-> "refused", status |-> 0, events |-> <<>>]}
    \cup {[conn |-> "ok", status |-> s, events |-> <<ValidEndpoint>>] : s \in Statuses \ {200}}
    \cup {[conn |-> "ok", status |-> 200, events |-> es] : es \in EventSeqs}
\* the streams served to the scripted run
MainUris ==
    {<<"/", "m">>, <<"/", "m", SID, "m">>, <<SID>>, <<"/", "/", "[", SID, "m">>,
     <<"m", SID, "m", SID>>}
MainStreams ==
    {[conn |-> "refused", status |-> 0, events |-> <<>>],
     [conn |-> "ok", status |-> 404, events |-> <<ValidEndpoint>>],
     [conn |-> "ok", status |-> 200, events |-> <<>>],
     [conn |-> "ok", status |-> 200, events |-> <<MessageEvent, ValidEndpoint>>],
     [conn |-> "ok", status |-> 200,
      events |-> <<[event |-> "endpoint", data |-> Unparsable], ValidEndpoint>>],
     [conn |-> "ok", status |-> 200,
      events |-> <<[event |-> "endpoint", data |-> PyDict({})]>>]}
    \cup {[conn |-> "ok", status |-> 200,
           events |-> <<[event |-> "endpoint", data |-> UriData(u)]>>] : u \in MainUris}

\* the answer to a POST: no connection, or a status with a body that is
\* empty, not JSON, or JSON
NoJson == PyNone
Responses(J) ==
    {[conn |-> "refused", status |-> 0, content |-> "empty", json |-> NoJson]}
    \cup {[conn |-> "ok", status |-> s, content |-> c, json |-> NoJson] :
            s \in Statuses, c \in {"empty", "text"}}
    \cup {[conn |-> "ok", status |-> s, content |-> "json", json |-> j] :
            s \in Statuses, j \in J}
ResultEmpty == PyDict({<<"result", PyDict({})>>})
RpcError == PyDict({<<"error", PyStr(<<"m">>)>>})
SmallJson == {PyNone, PyDict({}), PyNum(0), ResultEmpty, RpcError}

\* entries of result.tools
NamedTool(n) == PyDict({<<"name", PyStr(n)>>})
ToolEntries ==
    {PyDict({}), PyDict({<<"name", PyNone>>}), PyStr(<<"a">>),
     NamedTool(<<>>), NamedTool(<<"a">>),
     NamedTool(<<"findByAgentId", "Tool">>), NamedTool(<<"save", "Thing">>),
     NamedTool(<<"save", "findByAgentId">>)}
ToolLists == SeqsUpTo(ToolEntries, MaxTools)
WithResult(r) == PyDict({<<"result", r>>})
WithTools(x) == WithResult(PyDict({<<"tools", x>>}))
\* JSON bodies of a tools/list response
ListJson ==
    {PyNone, PyDict({}), PyNum(5), PyStr(<<"result">>), PyList(<<PyStr(<<"result">>)>>),
     RpcError}
    \cup {WithResult(r) : r \in {PyNone, PyNum(5), PyStr(<<"tools">>), PyStr(<<"m">>),
                                 PyList(<<PyStr(<<"tools">>)>>), PyDict({})}}
    \cup {WithTools(x) : x \in {PyNone, PyNum(5), PyStr(<<"m">>),
                                PyDict({<<"k", PyNone>>})}}
    \cup {WithTools(PyList(l)) : l \in ToolLists}

\* ------------------------------------------------------------------------
\* MCPSSEClient
\* ------------------------------------------------------------------------
VARIABLES
    driver,         \* who calls the client: "main" (the script), "caller"
                    \* (any method, any order) or "handshake" (connect_sse)
    pc,             \* where the driver is
    session_id,     \* self.session_id
    message_url,    \* self.message_url
    ret,            \* what the last method call returned
    posts,          \* the requests POSTed so far, in order
    init_result,    \* main: init_result
    tools_result,   \* main: tools_result
    out,            \* main: the reports printed
    sse,            \* the stream connect_sse read, when it was the last call
    resp            \* caller: the response send_mcp_request got, when it
                    \* was the last call

vars == <<driver, pc, session_id, message_url, ret, posts, init_result,
          tools_result, out, sse, resp>>

NoStream == [conn |-> "none", status |-> 0, events |-> <<>>]
NoResponse == [conn |-> "none", status |-> 0, content |-> "empty", json |-> NoJson]
Unset == [t |-> "unset"]

\* lines 36-49, the body of the loop over the events: the fields and the
\* return value after one event, the fields being sid0 and url0 before
HandleEvent(event, sid0, url0) ==
    LET fail == [ret |-> FALSE, session_id |-> sid0, message_url |-> url0] IN
    IF event.event # "endpoint" THEN fail
    ELSE LET endpoint_data == JsonLoads(event.data) IN
    IF endpoint_data = Raise THEN fail
    ELSE LET relative_uri == Get(endpoint_data, "uri", PyNone) IN
    IF relative_uri = Raise THEN fail
    ELSE IF ~Truthy(relative_uri) THEN fail
    ELSE IF InRaises(relative_uri) THEN fail
    ELSE IF ~In(SID, relative_uri) THEN fail
    \* .split on a list: AttributeError
    ELSE IF relative_uri.t # "str" THEN fail
    ELSE LET sid == PyStr(Split(relative_uri.s, SID)[2])
             joined == Urljoin(BaseUrl, relative_uri.s)
         IN IF ~joined.ok
            THEN [ret |-> FALSE, session_id |-> sid, message_url |-> url0]
            ELSE [ret |-> TRUE, session_id |-> sid, message_url |-> PyStr(joined.url)]

\* connect_sse without the break of line 52: the loop goes on to the next
\* event until one is usable
RECURSIVE LoopNoBreak(_, _, _)
LoopNoBreak(events, sid0, url0) ==
    IF events = <<>> THEN [ret |-> FALSE, session_id |-> sid0, message_url |-> url0]
    ELSE LET r == HandleEvent(Head(events), sid0, url0) IN
         IF r.ret THEN r ELSE LoopNoBreak(Tail(events), r.session_id, r.message_url)
ConnectSseNoBreak(st, sid0, url0) ==
    IF st.conn # "ok" \/ RaiseForStatus(st.status)
    THEN [ret |-> FALSE, session_id |-> sid0, message_url |-> url0]
    ELSE LoopNoBreak(st.events, sid0, url0)

\* connect_sse: the fields and the return value after reading stream st
ConnectSse(st, sid0, url0) ==
    LET fail == [ret |-> FALSE, session_id |-> sid0, message_url |-> url0]
    IN  IF st.conn # "ok" THEN fail
        ELSE IF RaiseForStatus(st.status) THEN fail
        ELSE IF st.events = <<>> THEN fail
        ELSE HandleEvent(st.events[1], sid0, url0)

\* send_mcp_request: whether it POSTs, and what it returns for response r
\* (a send_mcp_request without the guard of lines 62-64)
PostsUnguarded(url) == TRUE
Posts(url) == Truthy(url)
Marker(status) ==
    PyDict({<<"status", PyStr(<<"success">>)>>, <<"status_code", PyNum(status)>>})
\* (a send_mcp_request without the raise_for_status of line 82)
SendResultNoStatusCheck(url, r) ==
    IF ~Truthy(url) THEN PyNone
    ELSE IF r.conn # "ok" THEN PyNone
    ELSE IF r.content = "text" THEN PyNone
    ELSE IF r.content = "json" THEN r.json
    ELSE Marker(r.status)
SendResult(url, r) ==
    IF ~Truthy(url) THEN PyNone
    ELSE IF r.conn # "ok" THEN PyNone
    ELSE IF RaiseForStatus(r.status) THEN PyNone
    ELSE IF r.content = "text" THEN PyNone
    ELSE IF r.content = "json" THEN r.json
    ELSE Marker(r.status)

\* the request send_mcp_request POSTs
Request(method, name, arguments) ==
    [method |-> method, name |-> name, arguments |-> arguments]
Posted(url, req) == IF Posts(url) THEN Append(posts, req) ELSE posts

\* ------------------------------------------------------------------------
\* main(): the pure steps between two requests
\* ------------------------------------------------------------------------
Skip == [t |-> "skip"]
\* lines 168-169: tools_result['result']['tools'] when both keys are found,
\* Skip when one is not, Raise when a probe raises
ToolsOf(tr) ==
    IF InRaises(tr) THEN Raise
    ELSE IF ~In("result", tr) THEN Skip
    ELSE LET result == Subscript(tr, "result") IN
    IF result = Raise THEN Raise
    ELSE IF InRaises(result) THEN Raise
    ELSE IF ~In("tools", result) THEN Skip
    ELSE Subscript(result, "tools")

\* the for loops of lines 173-176 and 189-192 over the items of a list
RECURSIVE ScanItems(_, _)
ScanItems(items, sub) ==
    IF items = <<>> THEN PyNone
    ELSE LET name == Get(Head(items), "name", PyStr(<<>>)) IN
         IF name = Raise THEN Raise
         ELSE IF InRaises(name) THEN Raise
         ELSE IF In(sub, name) THEN Head(items)
         ELSE ScanItems(Tail(items), sub)
\* the same over a truthy tools: a number is not iterable, the elements of a
\* str and the keys of a dict are strs, which have no get
Scan(tools, sub) ==
    IF tools.t = "list" THEN ScanItems(tools.items, sub) ELSE Raise

\* lines 188-216: where main goes once the findByAgentId part is over
AfterFind(tools) ==
    LET save_tool == Scan(tools, "save") IN
    IF save_tool = Raise THEN "crashed"
    ELSE IF Truthy(save_tool) THEN "call_save"
    ELSE LET tool_name == Get(tools.items[1], "name", PyNone) IN
         IF Truthy(tool_name) THEN "call_first" ELSE "done"

\* lines 164-178: where main goes once tools/list returned tr
AfterList(tr) ==
    IF ~Truthy(tr) THEN "done"
    ELSE LET tools == ToolsOf(tr) IN
    IF tools = Raise THEN "crashed"
    ELSE IF tools = Skip THEN "done"
    ELSE IF ~Truthy(tools) THEN "done"
    ELSE LET find_tool == Scan(tools, "findByAgentId") IN
    IF find_tool = Raise THEN "crashed"
    ELSE IF Truthy(find_tool) THEN "call_find"
    ELSE AfterFind(tools)

\* the reports
Banner(q) == IF q = "done" THEN <<"banner">> ELSE <<>>
\* (a report testing `is not None`)
ReportNonNull(result, ok, failed) == IF result # PyNone THEN <<ok>> ELSE <<failed>>
Report(result, ok, failed) == IF Truthy(result) THEN <<ok>> ELSE <<failed>>

\* ------------------------------------------------------------------------
\* Initial state: the client just constructed (lines 15-20)
\* ------------------------------------------------------------------------
Init ==
    /\ driver \in {"main", "caller", "handshake"}
    /\ pc = IF driver = "main" THEN "connect" ELSE "new"
    /\ session_id = PyNone
    /\ message_url = PyNone
    /\ ret = Unset
    /\ posts = <<>>
    /\ init_result = Unset
    /\ tools_result = Unset
    /\ out = <<>>
    /\ sse = NoStream
    /\ resp = NoResponse

\* ------------------------------------------------------------------------
\* main()
\* ------------------------------------------------------------------------
\* lines 146-153
MainConnect ==
    /\ driver = "main" /\ pc = "connect"
    /\ \E st \in MainStreams :
        LET r == ConnectSse(st, session_id, message_url) IN
        /\ session_id' = r.session_id
        /\ message_url' = r.message_url
        /\ ret' = PyBool(r.ret)
        /\ sse' = st
        /\ pc' = IF r.ret THEN "init" ELSE "aborted"
        /\ out' = IF r.ret THEN <<"sse_ok">> ELSE <<"sse_failed">>
    /\ UNCHANGED <<driver, posts, init_result, tools_result, resp>>

\* (a main that gives up when initialize fails)
MainInitializeGivesUp ==
    /\ driver = "main" /\ pc = "init"
    /\ \E r \in Responses(SmallJson) :
        /\ ret' = SendResult(message_url, r)
        /\ init_result' = ret'
        /\ posts' = Posted(message_url, Request("initialize", PyNone, "clientInfo"))
        /\ out' = out \o Report(ret', "init_ok", "init_failed")
        /\ pc' = IF Truthy(ret') THEN "list" ELSE "done"
    /\ UNCHANGED <<driver, session_id, message_url, tools_result, sse, resp>>

\* lines 156-160
MainInitialize ==
    /\ driver = "main" /\ pc = "init"
    /\ \E r \in Responses(SmallJson) :
        /\ ret' = SendResult(message_url, r)
        /\ init_result' = ret'
        /\ posts' = Posted(message_url, Request("initialize", PyNone, "clientInfo"))
        /\ out' = out \o Report(ret', "init_ok", "init_failed")
    /\ pc' = "list"
    /\ UNCHANGED <<driver, session_id, message_url, tools_result, sse, resp>>

\* lines 163-178 and, without a findByAgentId tool, 188-211
MainListTools ==
    /\ driver = "main" /\ pc = "list"
    /\ \E r \in Responses(ListJson) :
        /\ ret' = SendResult(message_url, r)
        /\ tools_result' = ret'
        /\ posts' = Posted(message_url, Request("tools/list", PyNone, "none"))
        /\ pc' = AfterList(ret')
        /\ out' = out \o Report(ret', "list_ok", "list_failed") \o Banner(pc')
    /\ UNCHANGED <<driver, session_id, message_url, init_result, sse, resp>>

\* lines 178-185, then 188-211
MainCallFind ==
    /\ driver = "main" /\ pc = "call_find"
    /\ LET tools == ToolsOf(tools_result)
           find_tool == Scan(tools, "findByAgentId")
           tool_name == Get(find_tool, "name", PyNone)
       IN \E r \in Responses(SmallJson) :
            /\ ret' = SendResult(message_url, r)
            /\ posts' = Posted(message_url, Request("tools/call", tool_name, "agentId"))
            /\ pc' = AfterFind(tools)
            /\ out' = out \o Report(ret', "call_ok", "call_failed") \o Banner(pc')
    /\ UNCHANGED <<driver, session_id, message_url, init_result, tools_result, sse, resp>>

\* lines 194-206, then 220
MainCallSave ==
    /\ driver = "main" /\ pc = "call_save"
    /\ LET tools == ToolsOf(tools_result)
           save_tool == Scan(tools, "save")
           tool_name == Get(save_tool, "name", PyNone)
       IN \E r \in Responses(SmallJson) :
            /\ ret' = SendResult(message_url, r)
            /\ posts' = Posted(message_url, Request("tools/call", tool_name, "body"))
            /\ pc' = "done"
            /\ out' = out \o Report(ret', "post_ok", "post_failed") \o Banner(pc')
    /\ UNCHANGED <<driver, session_id, message_url, init_result, tools_result, sse, resp>>

\* lines 207-216, then 220
MainCallFirst ==
    /\ driver = "main" /\ pc = "call_first"
    /\ LET tools == ToolsOf(tools_result)
           first_tool == tools.items[1]
           tool_name == Get(first_tool, "name", PyNone)
       IN \E r \in Responses(SmallJson) :
            /\ ret' = SendResult(message_url, r)
            /\ posts' = Posted(message_url, Request("tools/call", tool_name, "none"))
            /\ pc' = "done"
            /\ out' = out \o Report(ret', "call_ok", "call_failed") \o Banner(pc')
    /\ UNCHANGED <<driver, session_id, message_url, init_result, tools_result, sse, resp>>

\* ------------------------------------------------------------------------
\* connect_sse alone, on every stream
\* ------------------------------------------------------------------------
HandshakeConnectSse ==
    /\ driver = "handshake" /\ pc = "new"
    /\ \E st \in Streams :
        LET r == ConnectSse(st, session_id, message_url) IN
        /\ session_id' = r.session_id
        /\ message_url' = r.message_url
        /\ ret' = PyBool(r.ret)
        /\ sse' = st
    /\ pc' = "used"
    /\ UNCHANGED <<driver, posts, init_result, tools_result, out, resp>>

\* ------------------------------------------------------------------------
\* A caller that uses the class directly, calling its methods in any order
\* ------------------------------------------------------------------------
CallConnectSse ==
    /\ driver = "caller"
    /\ \E st \in MainStreams :
        LET r == ConnectSse(st, session_id, message_url) IN
        /\ session_id' = r.session_id
        /\ message_url' = r.message_url
        /\ ret' = PyBool(r.ret)
        /\ sse' = st
    /\ pc' = "used"
    /\ resp' = NoResponse
    /\ UNCHANGED <<driver, posts, init_result, tools_result, out>>

\* send_mcp_request(method, ...) as the test_ methods call it
CallSend(req) ==
    /\ driver = "caller"
    /\ Len(posts) < MaxPosts
    /\ \E r \in Responses(SmallJson) :
        /\ ret' = SendResult(message_url, r)
        /\ posts' = Posted(message_url, req)
        /\ resp' = r
    /\ sse' = NoStream
    /\ UNCHANGED <<driver, pc, session_id, message_url, init_result, tools_result,
                   out>>

\* lines 101-111
CallTestInitialize == CallSend(Request("initialize", PyNone, "clientInfo"))
\* lines 113-116
CallTestListTools == CallSend(Request("tools/list", PyNone, "none"))
\* lines 118-124
CallTestCallTool ==
    \E a \in {"none", "body"} :
        CallSend(Request("tools/call", PyStr(<<"save", "Thing">>), a))
\* lines 126-132
CallTestCallToolWithAgentId ==
    CallSend(Request("tools/call", PyStr(<<"findByAgentId", "Tool">>), "agentId"))

Next ==
    \/ MainConnect
    \/ MainInitialize
    \/ MainListTools
    \/ MainCallFind
    \/ MainCallSave
    \/ MainCallFirst
    \/ HandshakeConnectSse
    \/ CallConnectSse
    \/ CallTestInitialize
    \/ CallTestListTools
    \/ CallTestCallTool
    \/ CallTestCallToolWithAgentId

Spec == Init /\ [][Next]_vars

\* ------------------------------------------------------------------------
\* Properties
\* ------------------------------------------------------------------------
IsCall(req) == req.method = "tools/call"
Calls == SelectSeq(posts, IsCall)
Methods == [i \in 1..Len(posts) |-> posts[i].method]
\* the stream was delivered: connect_sse got to read its first event
Delivered(st) == st.conn = "ok" /\ ~RaiseForStatus(st.status) /\ st.events # <<>>
\* an endpoint event whose uri is a text containing session_id=
GoodFirst(e) ==
    /\ e.event = "endpoint"
    /\ e.data.t = "dict"
    /\ "uri" \in Keys(e.data)
    /\ Lookup(e.data, "uri").t = "str"
    /\ HasToken(Lookup(e.data, "uri").s, SID)
AfterFirst(s, tok) == SubSeq(s, FirstIndex(s, tok) + 1, Len(s))
\* result.tools of tr is a list with at least one entry
HasToolList(tr) ==
    LET tools == ToolsOf(tr) IN
    tools \notin {Raise, Skip} /\ tools.t = "list" /\ tools.items # <<>>
\* every entry is an object with a non-empty text as its name
WellFormed(items) ==
    \A i \in 1..Len(items) :
        /\ items[i].t = "dict"
        /\ "name" \in Keys(items[i])
        /\ Lookup(items[i], "name").t = "str"
        /\ Lookup(items[i], "name").s # <<>>
NameHas(tool, sub) == HasToken(Lookup(tool, "name").s, sub)
FirstWith(items, sub) ==
    items[CHOOSE i \in 1..Len(items) :
            NameHas(items[i], sub) /\ \A j \in 1..(i - 1) : ~NameHas(items[j], sub)]
\* the one call the priority rule of C1 selects
PriorityCall(items) ==
    IF \E i \in 1..Len(items) : NameHas(items[i], "findByAgentId")
    THEN Request("tools/call", Lookup(FirstWith(items, "findByAgentId"), "name"), "agentId")
    ELSE IF \E i \in 1..Len(items) : NameHas(items[i], "save")
    THEN Request("tools/call", Lookup(FirstWith(items, "save"), "name"), "body")
    ELSE Request("tools/call", Lookup(items[1], "name"), "none")

\* C1 (as claimed): a finished run whose tools/list response carried a
\* non-empty list of well-formed tools issued exactly one tools/call, the one
\* the priority findByAgentId > save > first tool selects.
C1_ExactlyOnePriorityCall ==
    (driver = "main" /\ pc = "done" /\ HasToolList(tools_result)
        /\ WellFormed(ToolsOf(tools_result).items))
    => Calls = <<PriorityCall(ToolsOf(tools_result).items)>>

\* C2: nothing is POSTed while message_url is unset: a send_mcp_request
\* called then returns None and the log of requests stays empty; in the
\* scripted run a failed handshake ends the run with no POST, and any POST
\* follows a successful handshake.
C2_NoPostWithoutMessageUrl ==
    /\ posts # <<>> => Truthy(message_url)
    /\ (driver = "caller" /\ resp # NoResponse /\ ~Truthy(message_url))
        => (ret = PyNone /\ posts = <<>>)
    /\ (driver = "main" /\ ret = PyBool(FALSE)) => (pc = "aborted" /\ posts = <<>>)
    /\ (driver = "main" /\ posts # <<>>) => out[1] = "sse_ok"
\* a caller whose handshake failed sent a request the server would have
\* answered 200
C2_Witness ==
    /\ driver = "caller" /\ pc = "used" /\ ~Truthy(message_url)
    /\ resp.conn = "ok" /\ resp.status = 200 /\ resp.content = "json"
    /\ ret = PyNone /\ posts = <<>>

C4_SessionIdIsEverythingAfter ==
    (driver = "handshake" /\ Delivered(sse) /\ GoodFirst(sse.events[1]))
    => LET uri == Lookup(sse.events[1].data, "uri").s IN
       /\ session_id = PyStr(AfterFirst(uri, SID))
       /\ Urljoin(BaseUrl, uri).ok => message_url = PyStr(Urljoin(BaseUrl, uri).url)

C6_NoUncaughtException == driver = "main" => pc # "crashed"

\* null, or an empty or zero JSON value
EmptyOrZero(v) ==
    v \in {PyNone, PyDict({}), PyList(<<>>), PyStr(<<>>), PyNum(0), PyBool(FALSE)}
InitReported == driver = "main" /\ pc \notin {"connect", "aborted", "init"}
\* C7 (as claimed): initialize is reported as success exactly when
\* send_mcp_request returned a non-null value.
C7_SuccessIffNonNull ==
    InitReported => (out[2] = "init_ok" <=> init_result # PyNone)
\* C7 (amended): initialize is reported as success exactly when the value
\* returned is neither null nor an empty or zero JSON value; a JSON-RPC error
\* object and the marker of an empty body are reported as success.
C7_SuccessIffTruthy ==
    InitReported =>
        /\ out[2] \in {"init_ok", "init_failed"}
        /\ out[2] = "init_ok" <=> ~EmptyOrZero(init_result)
\* the server answered initialize with the empty JSON object
C7_Witness ==
    /\ InitReported /\ init_result = PyDict({}) /\ out[2] = "init_failed"
    /\ Len(posts) >= 1 /\ posts[1].method = "initialize"

\* C8: the scripted run POSTs initialize first and once, then tools/list
\* once, whether or not initialize succeeded, then only tools/call, each
\* after tools/list returned.
C8_RequestOrder ==
    driver = "main" =>
        /\ \A i \in 1..Len(posts) :
            posts[i].method = CASE i = 1 -> "initialize"
                                [] i = 2 -> "tools/list"
                                [] OTHER -> "tools/call"
        /\ pc \in {"connect", "aborted", "init"} => posts = <<>>
        /\ pc = "list" => Len(posts) = 1
        /\ pc \in {"call_find", "call_save", "call_first", "done", "crashed"}
            => (Len(posts) >= 2 /\ tools_result # Unset)
        /\ Len(posts) >= 3 => tools_result # Unset
\* a finished run in which initialize failed and two tools were called
C8_Witness ==
    /\ driver = "main" /\ pc = "done" /\ init_result = PyNone
    /\ Methods = <<"initialize", "tools/list", "tools/call", "tools/call">>

\* C9 (as claimed): in the scripted run session_id and message_url are
\* either both unset or both set.
C9_SetTogether ==
    driver = "main" => (session_id = PyNone <=> message_url = PyNone)

\* C10 (as claimed): when tools/list returned None or a JSON object, a
\* tools/call is issued only if the object has a non-empty result.tools list,
\* and without one the run ends at the banner, with no tools/call and no
\* error.
C10_CallOnlyWithTools ==
    (driver = "main" /\ tools_result.t \in {"null", "dict"}) =>
        /\ Calls # <<>> => HasToolList(tools_result)
        /\ ~HasToolList(tools_result)
            => (Calls = <<>> /\ pc = "done" /\ out[Len(out)] = "banner")

====
